---- MODULE Spec2Model ----
(***************************************************************************)
(* A model of the Source RCON client session of src/src/rcon.js: one TCP   *)
(* connection, the authenticate / execute / disconnect operations, the     *)
(* internal write primitive with its 'data' and 'error' listeners, and the *)
(* request queue (autostart, concurrency 1, 500 ms job timeout).           *)
(*                                                                         *)
(* Every action is one turn of the JavaScript event loop: the synchronous  *)
(* code of the call or event handler followed by the promise reactions     *)
(* (microtasks) it triggers.                                               *)
(***************************************************************************)
EXTENDS Integers, Sequences, FiniteSets, TLC

\* ------------------------------------------------------------------ bounds
\* number of authenticate / execute / disconnect calls made by the caller
MaxCalls == 3
\* number of frames the server sends in answer to one request packet
MaxFrames == 2

\* values of options.maximumPacketSize handed to the constructor
PacketSizeOptions == {0, 16}
\* byte lengths of the passwords and commands handed to the session
BodyLens == {2, 5000}
\* value of Math.floor(Math.random() * (256 - 1) + 1), which lies in 1..255
PacketIDs == {255}

\* ------------------------------------------------- protocol.js / packet.js
SERVERDATA_AUTH == 3
SERVERDATA_AUTH_RESPONSE == 2
SERVERDATA_EXECCOMMAND == 2
SERVERDATA_RESPONSE_VALUE == 0
ID_AUTH == 2457
\* the sentinel id of a refused authentication
ID_FAILED == -1
\* character code of "\n"
NL == 10

\* A request body is a text known by the call that supplied it and its byte
\* length; a response body is a sequence of character codes.
encode(type, id, body) ==
    [size |-> 4 + 4 + body.len + 2, id |-> id, type |-> type, body |-> body]

\* encodedPacket.length: the size field itself takes four more bytes
Length(encodedPacket) == 4 + encodedPacket.size

\* text.replace(/\n$/, by)
replace(text, by) ==
    IF Len(text) > 0 /\ text[Len(text)] = NL
    THEN SubSeq(text, 1, Len(text) - 1) \o by
    ELSE text

decode(frame) ==
    [size |-> 4 + 4 + Len(frame.body) + 2, id |-> frame.id,
     type |-> frame.type, body |-> replace(frame.body, <<>>)]

\* ------------------------------------------------------------------- state
VARIABLES
    option,             \* options.maximumPacketSize as given to the constructor
    maximumPacketSize,  \* this.maximumPacketSize
    authenticated,      \* this.authenticated
    connection,         \* this.connection: destroyed flag and listeners
    q,                  \* this.q: waiting jobs and number of running jobs
    calls,              \* the calls made so far, with their promises
    wire,               \* every connection.write, in order
    server,             \* the server's position in answering the wire
    delivered           \* number of 'data' events emitted so far

vars == <<option, maximumPacketSize, authenticated, connection, q, calls,
          wire, server, delivered>>

\* The part of the state the handlers of the session read and write, as one
\* record; micro is the queue of promise reactions of the current turn and
\* event the 'data' event being handled: its number and the packet of the
\* wire its frame answers (0 in any other turn).
NoEvent == [n |-> 0, for |-> 0]

Cur ==
    [authenticated |-> authenticated, connection |-> connection, q |-> q,
     calls |-> calls, wire |-> wire, micro |-> <<>>, event |-> NoEvent]

Commit(S) ==
    /\ authenticated' = S.authenticated
    /\ connection' = S.connection
    /\ q' = S.q
    /\ calls' = S.calls
    /\ wire' = S.wire

\* ---------------------------------------------------------------- promises
\* A settled value: 'success', 'failed', a response text, or an Error.
Val(tag, body) == [tag |-> tag, body |-> body]
Error(message) == Val(message, <<>>)

\* resolve / reject of the promise a call returns: the first one wins
settle(S, c, state, value) ==
    IF S.calls[c].state = "pending"
    THEN [S EXCEPT !.calls[c].state = state, !.calls[c].value = value]
    ELSE S

\* resolve / reject of the promise of write(): the first one wins and
\* schedules the reaction attached by authenticate or execute
settleWrite(S, c, state, value) ==
    IF S.calls[c].wstate = "pending"
    THEN [S EXCEPT !.calls[c].wstate = state, !.calls[c].wvalue = value,
                   !.calls[c].by = S.event,
                   !.micro = Append(@, c)]
    ELSE S

removeListener(S, event, l) ==
    [S EXCEPT !.connection[event] = SelectSeq(@, LAMBDA x : x # l)]

\* The record of a call: its promise (state, value), the promise of its
\* write (wstate, wvalue), and history: the session flags when it was made,
\* the position of its packet in the wire, how often its onData has run,
\* the 'data' event that settled its write and the frame of the first
\* 'data' event after its packet was written.
NoFrame == [for |-> 0, id |-> 0, type |-> 0, body |-> <<>>]

NewCall(op, body, packetID) ==
    [op |-> op, body |-> body, packetID |-> packetID,
     authAtCall |-> authenticated, writableAtCall |-> ~connection.destroyed,
     state |-> "pending", value |-> Val("", <<>>),
     wstate |-> "none", wvalue |-> Val("", <<>>), by |-> NoEvent,
     packet |-> 0, fired |-> 0, first |-> NoFrame]

\* listeners registered by write (of = "write") and disconnect
Listener(of, c) == [of |-> of, call |-> c]

\* -------------------------------------------------------------- disconnect
\* disconnect() that destroys the transport and forgets the flag
disconnect_keepsFlag(S, d) ==
    [S EXCEPT !.connection.destroyed = TRUE,
              !.connection.close = Append(@, Listener("disconnect", d)),
              !.connection.error = Append(@, Listener("disconnect", d))]

\* disconnect(): d is the call the returned promise belongs to, 0 when the
\* promise is dropped (the call made by authenticate)
disconnect(S, d) ==
    [S EXCEPT !.authenticated = FALSE,
              !.connection.destroyed = TRUE,
              !.connection.close = Append(@, Listener("disconnect", d)),
              !.connection.error = Append(@, Listener("disconnect", d))]

\* ------------------------------------------------------------------- write
\* onData that answers a command only with a frame bearing the request id
onData_matchesId(S, c, packet) ==
    LET type == IF S.calls[c].op = "authenticate"
                THEN SERVERDATA_AUTH ELSE SERVERDATA_EXECCOMMAND
        decodedPacket == decode(packet)
        S0 == [S EXCEPT !.calls[c].fired = @ + 1]
        response == <<>> \o replace(decodedPacket.body, <<NL>>)
    IN  IF type = SERVERDATA_AUTH
           /\ decodedPacket.type # SERVERDATA_AUTH_RESPONSE
        THEN settleWrite(S0, c, "resolved", Val("failed", <<>>))
        ELSE IF type = SERVERDATA_AUTH
                /\ decodedPacket.type = SERVERDATA_AUTH_RESPONSE
        THEN removeListener(
               removeListener(
                 settleWrite(S0, c, "resolved",
                     IF decodedPacket.id # ID_FAILED
                     THEN Val("success", <<>>) ELSE Val("failed", <<>>)),
                 "data", Listener("write", c)),
               "error", Listener("write", c))
        ELSE IF decodedPacket.id # S.calls[c].packetID
        THEN S0
        ELSE removeListener(
               settleWrite(
                 removeListener(S0, "data", Listener("write", c)),
                 c, "resolved", Val("response", response)),
               "error", Listener("write", c))

\* onData of the write of call c, run for the frame of one 'data' event
onData(S, c, packet) ==
    LET type == IF S.calls[c].op = "authenticate"
                THEN SERVERDATA_AUTH ELSE SERVERDATA_EXECCOMMAND
        decodedPacket == decode(packet)
        S0 == [S EXCEPT !.calls[c].fired = @ + 1]
        response == <<>> \o replace(decodedPacket.body, <<NL>>)
    IN  IF type = SERVERDATA_AUTH
           /\ decodedPacket.type # SERVERDATA_AUTH_RESPONSE
        THEN settleWrite(S0, c, "resolved", Val("failed", <<>>))
        ELSE IF type = SERVERDATA_AUTH
                /\ decodedPacket.type = SERVERDATA_AUTH_RESPONSE
        THEN removeListener(
               removeListener(
                 settleWrite(S0, c, "resolved",
                     IF decodedPacket.id # ID_FAILED
                     THEN Val("success", <<>>) ELSE Val("failed", <<>>)),
                 "data", Listener("write", c)),
               "error", Listener("write", c))
        ELSE removeListener(
               settleWrite(
                 removeListener(S0, "data", Listener("write", c)),
                 c, "resolved", Val("response", response)),
               "error", Listener("write", c))

\* onError that leaves the response handler registered
onError_keepsHandler(S, c, e) == settleWrite(S, c, "rejected", e)

\* onError of the write of call c
onError(S, c, e) ==
    settleWrite(removeListener(S, "data", Listener("write", c)),
                c, "rejected", e)

\* write(type, id, body) made for call c
write(S, c, type, id, body) ==
    LET encodedPacket == encode(type, id, body)
        S0 == [S EXCEPT !.calls[c].wstate = "pending"]
        S1 == IF maximumPacketSize > 0
                 /\ Length(encodedPacket) > maximumPacketSize
              THEN settleWrite(S0, c, "rejected", Error("Packet too long"))
              ELSE S0
    IN  [S1 EXCEPT
           !.connection.data = Append(@, Listener("write", c)),
           !.connection.error = Append(@, Listener("write", c)),
           !.wire = Append(@, [call |-> c, packet |-> encodedPacket,
                               sent |-> ~S.connection.destroyed]),
           !.calls[c].packet = Len(S.wire) + 1]

\* the reactions authenticate and execute attach to the promise of write
writeThen(S, c) ==
    LET call == S.calls[c]
    IN  IF call.wstate = "rejected"
        THEN settle(S, c, "rejected", call.wvalue)
        ELSE IF call.op = "execute"
        THEN settle(S, c, "resolved", call.wvalue)
        ELSE IF call.wvalue = Val("success", <<>>)
        THEN settle([S EXCEPT !.authenticated = TRUE],
                    c, "resolved", Val("", <<>>))
        ELSE settle(disconnect(S, 0),
                    c, "rejected", Error("Unable to authenticate"))

\* the microtask queue is drained at the end of every turn
RECURSIVE RunMicrotasks(_)
RunMicrotasks(S) ==
    IF S.micro = <<>>
    THEN S
    ELSE RunMicrotasks(writeThen([S EXCEPT !.micro = Tail(@)], Head(S.micro)))

\* ------------------------------------------------------------------- queue
\* new queue({ autostart: true, timeout: 500, concurrency: 1 })
concurrency == 1

\* the job execute pushes for call c: it takes no callback and returns no
\* promise, so the queue learns of its end from the job timeout alone
job(S, c) ==
    write(S, c, SERVERDATA_EXECCOMMAND, S.calls[c].packetID, S.calls[c].body)

\* q.start() that waits for the response of the job before it, as well
start_awaitsResponse(S) ==
    IF S.q.pending >= concurrency \/ S.q.jobs = <<>>
          \/ S.connection.data # <<>>
    THEN S
    ELSE job([S EXCEPT !.q.jobs = Tail(@), !.q.pending = @ + 1],
             Head(S.q.jobs))

\* q.start(): run the next job if a slot is free
start(S) ==
    IF S.q.pending >= concurrency \/ S.q.jobs = <<>>
    THEN S
    ELSE job([S EXCEPT !.q.jobs = Tail(@), !.q.pending = @ + 1],
             Head(S.q.jobs))

\* q.push(job) that puts the job in front of the waiting ones
push_front(S, c) == start([S EXCEPT !.q.jobs = <<c>> \o @])

\* q.push(job) with autostart
push(S, c) == start([S EXCEPT !.q.jobs = Append(@, c)])

\* -------------------------------------------------------------- the server
\* The frames the server may send next in answer to packet p of the wire.
\* An answer is up to MaxFrames frames. Every frame but the last is a
\* response value; the last one is an auth response, bearing the id of the
\* request or the sentinel, when p is an auth packet, and a response value
\* otherwise. A frame that answers a command carries text ending in "\n".
Frames(p, last) ==
    LET request == wire[p].packet
        text == IF request.type = SERVERDATA_AUTH THEN <<>> ELSE <<96 + p, NL>>
    IN  IF last /\ request.type = SERVERDATA_AUTH
        THEN { [for |-> p, id |-> i, type |-> SERVERDATA_AUTH_RESPONSE,
                body |-> text] : i \in {request.id, ID_FAILED} }
        ELSE { [for |-> p, id |-> request.id,
                type |-> SERVERDATA_RESPONSE_VALUE, body |-> text] }

\* history: the frame is the first one after the packets of the calls 1..c
\* that were written and not yet followed by a 'data' event
RECURSIVE MarkFirst(_, _, _)
MarkFirst(S, packet, c) ==
    IF c = 0
    THEN S
    ELSE MarkFirst(IF S.calls[c].packet # 0 /\ S.calls[c].first = NoFrame
                   THEN [S EXCEPT !.calls[c].first = packet]
                   ELSE S,
                   packet, c - 1)

\* connection.emit('data', packet): every listener of the snapshot runs
RECURSIVE emitData(_, _, _)
emitData(S, listeners, packet) ==
    IF listeners = <<>>
    THEN S
    ELSE emitData(onData(S, Head(listeners).call, packet),
                  Tail(listeners), packet)

\* connection.emit('error', e): the listeners are all registered with once
RECURSIVE emitError(_, _, _)
emitError(S, listeners, e) ==
    IF listeners = <<>>
    THEN S
    ELSE LET l == Head(listeners)
             S0 == removeListener(S, "error", l)
             S1 == IF l.of = "write"
                   THEN onError(S0, l.call, e)
                   ELSE LET S2 == removeListener(S0, "close", l)
                        IN  IF l.call = 0 THEN S2
                            ELSE settle(S2, l.call, "rejected", e)
         IN  emitError(S1, Tail(listeners), e)

\* connection.emit('close'): onClose of every disconnect
RECURSIVE emitClose(_, _)
emitClose(S, listeners) ==
    IF listeners = <<>>
    THEN S
    ELSE LET l == Head(listeners)
             S0 == removeListener(removeListener(S, "close", l), "error", l)
             S1 == IF l.call = 0 THEN S0
                   ELSE settle(S0, l.call, "resolved", Val("", <<>>))
         IN  emitClose(S1, Tail(listeners))

\* -------------------------------------------------------------------- Init
DefaultMaximumPacketSize == 4096

Init ==
    /\ option \in PacketSizeOptions
    /\ maximumPacketSize =
          IF option # 0 THEN option ELSE DefaultMaximumPacketSize
    /\ authenticated = FALSE
    /\ connection = [destroyed |-> FALSE, closed |-> FALSE, errored |-> FALSE,
                     data |-> <<>>, error |-> <<>>, close |-> <<>>]
    /\ q = [jobs |-> <<>>, pending |-> 0]
    /\ calls = <<>>
    /\ wire = <<>>
    /\ server = [next |-> 1, frames |-> 0]
    /\ delivered = 0

\* ----------------------------------------------------------------- actions
\* authenticate(password)
Authenticate ==
    /\ Len(calls) < MaxCalls
    /\ \E len \in BodyLens :
         LET c == Len(calls) + 1
             password == [text |-> c, len |-> len]
             S0 == [Cur EXCEPT !.calls =
                       Append(@, NewCall("authenticate", password, ID_AUTH))]
             S1 == IF S0.authenticated
                   THEN settle(S0, c, "rejected",
                               Error("Already authenticated"))
                   ELSE S0
         IN  Commit(RunMicrotasks(
                 write(S1, c, SERVERDATA_AUTH, ID_AUTH, password)))
    /\ UNCHANGED <<option, maximumPacketSize, server, delivered>>

\* execute(command)
Execute ==
    /\ Len(calls) < MaxCalls
    /\ \E len \in BodyLens, packetID \in PacketIDs :
         LET c == Len(calls) + 1
             command == [text |-> c, len |-> len]
             S0 == [Cur EXCEPT !.calls =
                       Append(@, NewCall("execute", command, packetID))]
             S1 == IF S0.connection.destroyed
                   THEN settle(S0, c, "rejected",
                               Error("Unable to write to socket"))
                   ELSE S0
             S2 == IF ~S1.authenticated
                   THEN settle(S1, c, "rejected",
                               Error("Unable to authenticate"))
                   ELSE S1
         IN  Commit(RunMicrotasks(push(S2, c)))
    /\ UNCHANGED <<option, maximumPacketSize, server, delivered>>

\* disconnect() called by the user of the session
Disconnect ==
    /\ Len(calls) < MaxCalls
    /\ LET c == Len(calls) + 1
           S0 == [Cur EXCEPT !.calls =
                     Append(@, NewCall("disconnect", [text |-> c, len |-> 0], 0))]
       IN  Commit(disconnect(S0, c))
    /\ UNCHANGED <<option, maximumPacketSize, server, delivered>>

\* the 500 ms timer of the running job fires: the queue frees the slot and
\* starts the next job. The timer runs against the answer of the server, so
\* it may fire before or after the delivery.
Timeout ==
    /\ q.pending > 0
    /\ Commit(RunMicrotasks(start([Cur EXCEPT !.q.pending = @ - 1])))
    /\ UNCHANGED <<option, maximumPacketSize, server, delivered>>

\* the transport emits 'data' with the next frame of the server; the server
\* answers the packets in the order of the wire, and a destroyed socket
\* emits no 'data'
Deliver ==
    /\ ~connection.destroyed
    /\ server.next <= Len(wire)
    /\ \E last \in BOOLEAN :
       \E packet \in Frames(server.next, last) :
         /\ server.frames + 1 >= MaxFrames => last
         /\ delivered' = delivered + 1
         /\ server' = IF last
                      THEN [next |-> server.next + 1, frames |-> 0]
                      ELSE [server EXCEPT !.frames = @ + 1]
         /\ Commit(RunMicrotasks(
                emitData(MarkFirst([Cur EXCEPT !.event =
                             [n |-> delivered + 1, for |-> packet.for]],
                           packet, Len(calls)),
                         connection.data, packet)))
    /\ UNCHANGED <<option, maximumPacketSize>>

\* the transport emits 'error' and destroys itself; a socket destroyed by
\* destroy() emits no 'error'
TransportError ==
    /\ ~connection.destroyed
    /\ Commit(RunMicrotasks(
           emitError([Cur EXCEPT !.connection.destroyed = TRUE,
                                 !.connection.errored = TRUE],
                     connection.error, Error("TransportError"))))
    /\ UNCHANGED <<option, maximumPacketSize, server, delivered>>

\* the destroyed transport emits 'close', once
Close ==
    /\ connection.destroyed
    /\ ~connection.closed
    /\ Commit(emitClose([Cur EXCEPT !.connection.closed = TRUE],
                        connection.close))
    /\ UNCHANGED <<option, maximumPacketSize, server, delivered>>

Next ==
    \/ Authenticate
    \/ Execute
    \/ Disconnect
    \/ Timeout
    \/ Deliver
    \/ TransportError
    \/ Close

Spec == Init /\ [][Next]_vars

\* The event loop runs every event the socket has pending: a destroyed
\* socket reports 'close'. The caller need not make another call, the
\* server need not answer and the transport need not fail.
DisconnectSpec == Spec /\ WF_vars(Close)

\* A session authenticated by its first call: the state of Spec after
\* authenticate(password) and the delivery of an accepting auth response.
AuthenticatedSession ==
    /\ option \in PacketSizeOptions
    /\ maximumPacketSize =
          IF option # 0 THEN option ELSE DefaultMaximumPacketSize
    /\ authenticated = TRUE
    /\ connection = [destroyed |-> FALSE, closed |-> FALSE, errored |-> FALSE,
                     data |-> <<>>, error |-> <<>>, close |-> <<>>]
    /\ q = [jobs |-> <<>>, pending |-> 0]
    /\ calls = << [op |-> "authenticate", body |-> [text |-> 1, len |-> 2],
                   packetID |-> ID_AUTH, authAtCall |-> FALSE,
                   writableAtCall |-> TRUE,
                   state |-> "resolved", value |-> Val("", <<>>),
                   wstate |-> "resolved", wvalue |-> Val("success", <<>>),
                   by |-> [n |-> 1, for |-> 1], packet |-> 1, fired |-> 1,
                   first |-> [for |-> 1, id |-> ID_AUTH,
                              type |-> SERVERDATA_AUTH_RESPONSE,
                              body |-> <<>>]] >>
    /\ wire = << [call |-> 1,
                  packet |-> encode(SERVERDATA_AUTH, ID_AUTH,
                                    [text |-> 1, len |-> 2]),
                  sent |-> TRUE] >>
    /\ server = [next |-> 2, frames |-> 0]
    /\ delivered = 1

\* The request queue at work: an authenticated session on which the caller
\* makes execute and disconnect calls. The event loop runs every timer that
\* is due, so the 500 ms timer of a running job fires.
SequencerInit == AuthenticatedSession

SequencerNext ==
    \/ Execute
    \/ Disconnect
    \/ Timeout
    \/ Deliver
    \/ TransportError
    \/ Close

SequencerSpec ==
    SequencerInit /\ [][SequencerNext]_vars /\ WF_vars(Timeout)

\* ================================================================== claims
Calls == DOMAIN calls

Executes == {c \in Calls : calls[c].op = "execute"}

Authenticates == {c \in Calls : calls[c].op = "authenticate"}

\* the packet written for call c is longer than a positive maximumPacketSize
TooLong(c) ==
    /\ maximumPacketSize > 0
    /\ Length(encode(0, 0, calls[c].body)) > maximumPacketSize

\* the session was authenticated by its first call and every later call is
\* an execute made while authenticated
OnlyExecutesOnceAuthenticated ==
    /\ Len(calls) >= 1
    /\ calls[1].op = "authenticate"
    /\ \A c \in Calls \ {1} : calls[c].op = "execute" /\ calls[c].authAtCall

\* C1: two execute calls made on an authenticated session each resolve with
\* the delivery the server sent in answer to their own packet: no delivery
\* goes to the wrong caller and no delivery resolves both calls.
C1_ResponsesReachTheirCaller ==
    OnlyExecutesOnceAuthenticated =>
        \A a \in Executes :
            calls[a].state = "resolved" =>
                /\ calls[a].by.for = calls[a].packet
                /\ \A b \in Executes \ {a} :
                       calls[b].state = "resolved" =>
                           calls[b].by.n # calls[a].by.n

\* C2: at most one execute request is in flight: no execute packet is
\* written, and no response handler registered, while the write of an
\* earlier execute still awaits its response.
C2_OneExecuteInFlight ==
    Cardinality({c \in Executes :
                    calls[c].authAtCall /\ calls[c].wstate = "pending"}) <= 1

\* C3: a packet whose encoded length exceeds a positive maximumPacketSize
\* fails with 'Packet too long' and is never written to the transport.
C3_TooLongNeverWritten ==
    \A c \in Calls :
        (calls[c].op # "disconnect" /\ TooLong(c)) =>
            /\ calls[c].wstate # "none" =>
                   calls[c].wvalue = Error("Packet too long")
            /\ calls[c].packet = 0

\* C4: execute called while authenticated is false fails and causes no
\* write to the transport, neither at once nor when the queue runs.
C4_UnauthenticatedExecuteWritesNothing ==
    \A c \in Executes :
        ~calls[c].authAtCall =>
            /\ calls[c].state = "rejected"
            /\ calls[c].packet = 0

\* C5: authenticate called while authenticated is true fails with 'Already
\* authenticated' and writes no AUTH packet to the transport.
C5_AlreadyAuthenticatedWritesNothing ==
    \A c \in Authenticates :
        calls[c].authAtCall =>
            /\ calls[c].state = "rejected"
            /\ calls[c].value = Error("Already authenticated")
            /\ calls[c].packet = 0

\* C6: a session constructed with maximumPacketSize = 0 never fails a write
\* with 'Packet too long', whatever the encoded length.
C6_ZeroDisablesSizeCheck ==
    option = 0 =>
        \A c \in Calls : calls[c].wvalue # Error("Packet too long")

\* C7: the response handler of a write runs for at most one 'data' event and
\* is no longer registered once it has run.
C7_HandlerFiresOnce ==
    \A c \in Calls :
        /\ calls[c].fired <= 1
        /\ calls[c].fired >= 1 =>
               \A i \in DOMAIN connection.data :
                   connection.data[i] # Listener("write", c)

\* the frame of the first 'data' event after the AUTH packet of call c
FirstIs(c, type, ids) ==
    /\ calls[c].first # NoFrame
    /\ decode(calls[c].first).type = type
    /\ decode(calls[c].first).id \in ids

\* C8: when the first delivery after an AUTH packet is an auth response
\* with id -1, authenticate has failed, authenticated is false and the
\* transport is destroyed.
C8_RefusedAuthDisconnects ==
    \A c \in Authenticates :
        FirstIs(c, SERVERDATA_AUTH_RESPONSE, {ID_FAILED}) =>
            /\ calls[c].state = "rejected"
            /\ ~authenticated
            /\ connection.destroyed

\* the 'data' event of this step is the first one after the packet of c
FirstNow(c) ==
    /\ c \in Calls
    /\ calls[c].packet # 0
    /\ calls[c].first = NoFrame
    /\ calls'[c].first # NoFrame

\* C9: when authenticate is called on an unauthenticated session and the
\* first delivery after its AUTH packet is an auth response with an id other
\* than -1, authenticate succeeds and authenticated is true after that
\* delivery.
C9_AcceptedAuthSucceeds ==
    [][\A c \in Authenticates :
          (/\ FirstNow(c)
           /\ ~calls[c].authAtCall
           /\ decode(calls'[c].first).type = SERVERDATA_AUTH_RESPONSE
           /\ decode(calls'[c].first).id # ID_FAILED)
          => /\ calls'[c].state = "resolved"
             /\ authenticated']_vars

\* C10: when the first delivery after an AUTH packet is not an auth
\* response, authenticate fails at that delivery and the session is
\* disconnected: authenticated is false and the transport destroyed, and
\* no later delivery makes the call succeed.
C10_WrongFirstFrameFailsAtOnce ==
    [][\A c \in Authenticates :
          (/\ FirstNow(c)
           /\ decode(calls'[c].first).type # SERVERDATA_AUTH_RESPONSE)
          => /\ calls'[c].state = "rejected"
             /\ ~authenticated'
             /\ connection'.destroyed]_vars

\* ----------------------------------------------------------- C11 .. C20
Disconnects == {c \in Calls : calls[c].op = "disconnect"}

\* disconnect() has been called, by the caller or by authenticate after a
\* failed handshake
DisconnectCalled ==
    \/ Disconnects # {}
    \/ \E c \in Authenticates :
           /\ calls[c].wstate = "resolved"
           /\ calls[c].wvalue = Val("failed", <<>>)

\* the promise returned by call c is resolved or rejected
Settled(c) == c \in Calls /\ calls[c].state # "pending"

\* C11: every call of disconnect leaves authenticated false and the
\* transport destroyed, and the promise it returns eventually settles, also
\* when the transport was already closed by an earlier disconnect.
C11_DisconnectSettles ==
    /\ [](Disconnects # {} => ~authenticated /\ connection.destroyed)
    /\ \A d \in 1..MaxCalls :
           []((d \in Disconnects /\ ~connection.errored) => <>Settled(d))

\* the packet of call c is written, no frame has been delivered since, and
\* neither its write nor the call is settled
InFlight(c) ==
    /\ c \in Calls
    /\ calls[c].op # "disconnect"
    /\ calls[c].packet # 0
    /\ calls[c].first = NoFrame
    /\ calls[c].wstate = "pending"
    /\ calls[c].state = "pending"

\* C12: an authenticate or execute that is in flight when disconnect is
\* called eventually settles.
C12_DisconnectAbortsInFlight ==
    \A c \in 1..MaxCalls :
        []((InFlight(c) /\ ~connection.errored
                       /\ \E d \in Disconnects : d > c)
              => <>Settled(c))

\* C13: once the transport has reported an error, authenticated is false
\* and every execute made afterwards is rejected.
C13_ErrorCloses ==
    connection.errored =>
        /\ ~authenticated
        /\ \A c \in Executes :
               ~calls[c].writableAtCall => calls[c].state = "rejected"

\* C14: once disconnect has been called, by the caller or through a failed
\* authentication, authenticated is never true again and the transport
\* stays destroyed, whatever calls and events follow.
C14_ClosedIsTerminal ==
    DisconnectCalled => ~authenticated /\ connection.destroyed

\* an authenticated session was disconnected and authenticate called again
C14_Witness ==
    /\ DisconnectCalled
    /\ \E a \in Authenticates : calls[a].state = "resolved"
    /\ \E c \in Authenticates : ~calls[c].writableAtCall /\ calls[c].packet # 0

\* the transport emits 'error' in this step
ErrorNow == ~connection.errored /\ connection'.errored

Registered(c) ==
    \E i \in DOMAIN connection.data : connection.data[i] = Listener("write", c)

\* C15: when the transport emits 'error' while a write is pending, the write
\* and the pending call it belongs to fail with the error of the transport,
\* the response handler of the write is removed, and the packet of a call is
\* never written a second time.
C15_ErrorFailsPendingWrite ==
    [][/\ ErrorNow =>
             \A c \in Calls :
                 calls[c].wstate = "pending" =>
                     /\ calls'[c].wstate = "rejected"
                     /\ calls'[c].wvalue = Error("TransportError")
                     /\ calls[c].state = "pending" =>
                            /\ calls'[c].state = "rejected"
                            /\ calls'[c].value = Error("TransportError")
                     /\ ~Registered(c)'
                     /\ wire' = wire
       /\ \A c \in Calls :
              calls[c].packet # 0 =>
                  \A i \in DOMAIN wire' \ DOMAIN wire : wire'[i].call # c
      ]_vars

\* a call has failed with the error of the transport
C15_Witness ==
    \E c \in Calls :
        /\ calls[c].wvalue = Error("TransportError")
        /\ calls[c].state = "rejected"
        /\ calls[c].value = Error("TransportError")
        /\ calls[c].packet # 0

\* the EXECCOMMAND packets of the wire, and the execute calls, in order
ExecWrites == SelectSeq(wire, LAMBDA w : calls[w.call].op = "execute")

RECURSIVE ExecCallsUpTo(_)
ExecCallsUpTo(n) ==
    IF n = 0 THEN <<>>
    ELSE IF calls[n].op = "execute"
         THEN Append(ExecCallsUpTo(n - 1), n)
         ELSE ExecCallsUpTo(n - 1)

ExecCalls == ExecCallsUpTo(Len(calls))

\* C16: the i-th EXECCOMMAND packet written to the transport carries the
\* command and the id of the i-th execute call.
C16_WritesInCallOrder ==
    /\ Len(ExecWrites) <= Len(ExecCalls)
    /\ \A i \in DOMAIN ExecWrites :
           /\ ExecWrites[i].call = ExecCalls[i]
           /\ ExecWrites[i].packet =
                  encode(SERVERDATA_EXECCOMMAND,
                         calls[ExecCalls[i]].packetID, calls[ExecCalls[i]].body)

\* two commands of an authenticated session are on the wire
C16_Witness ==
    /\ Len(ExecWrites) >= 2
    /\ \A i \in DOMAIN ExecWrites : calls[ExecWrites[i].call].authAtCall

\* the packet of call c has been written
Written(c) == c \in Calls /\ calls[c].packet # 0

\* C17: a job whose response never arrives does not block the queue: with
\* the job timer running, the packet of every execute call is eventually
\* written.
C17_QueueMovesOn ==
    \A c \in 1..MaxCalls : [](c \in Executes => <>Written(c))

\* the packet of an execute is written while the write of an earlier one
\* still waits for its response
C17_Witness ==
    \E a, b \in Executes :
        /\ a < b
        /\ calls[a].authAtCall /\ calls[b].authAtCall
        /\ calls[a].packet # 0
        /\ calls[a].wstate = "pending"
        /\ calls[a].first = NoFrame
        /\ calls[b].packet # 0

C19_RejectedAuthenticateChangesNothing ==
    [][\A c \in Authenticates :
          (/\ FirstNow(c)
           /\ calls[c].authAtCall
           /\ calls[c].value = Error("Already authenticated")
           /\ authenticated
           /\ ~connection.destroyed)
          => /\ authenticated'
             /\ ~connection'.destroyed]_vars

\* C20: once disconnect has been called, connection.write is never called
\* again: not by a job queued before, not by a call made after.
C20_NoWriteAfterDisconnect ==
    [][DisconnectCalled => wire' = wire]_vars

====
